---------------------------- MODULE Spec2Model ----------------------------
(***************************************************************************)
(* Model of the QuantumWaveFunctionSimulator backend: grid construction    *)
(* (utils/grid.py), potentials (potentials/basic.py), the stationary and   *)
(* time-dependent Schrodinger solvers in one and two dimensions            *)
(* (solvers/schrodinger_1d.py, solvers/schrodinger_2d.py) and the request  *)
(* handlers that chain them (main.py).                                     *)
(*                                                                         *)
(* Numbers.  Floating point values are modelled by exact rationals         *)
(* <<num, den>> (den > 0, lowest terms).  A wavefunction is a record       *)
(* [amp, s]: the complex vector amp / sqrt(s), amp a sequence of Gaussian  *)
(* integers <<re, im>> and s a positive rational, so that the square roots *)
(* the code takes when it normalizes stay exact.  Python indices start at  *)
(* 0 and sequences here at 1: element k of an array is item k + 1.         *)
(***************************************************************************)
EXTENDS Integers, Sequences, FiniteSets, TLC

(***************************************************************************)
(* Bounds of the model.                                                    *)
(***************************************************************************)
MaxPoints == 3      \* num_points, num_x, num_y range over 0 .. MaxPoints
MaxCoord == 2       \* xmax of a 1D grid ranges over 1 .. MaxCoord
MaxK == 5           \* num_eigen ranges over 1 .. MaxK
MaxTimes == 3       \* len(times) ranges over 1 .. MaxTimes
MaxEigN == 4        \* largest Hamiltonian whose eigenvectors are searched for

(***************************************************************************)
(* Exact rational arithmetic.                                              *)
(***************************************************************************)
Abs(a) == IF a < 0 THEN -a ELSE a

RECURSIVE Gcd(_, _)
Gcd(a, b) == IF b = 0 THEN Abs(a) ELSE Gcd(b, a % b)

Rat(n, d) ==
    IF d = 1 THEN <<n, 1>>
    ELSE LET g == Gcd(n, d)
             sg == IF d < 0 THEN -1 ELSE 1
         IN  <<sg * (n \div g), sg * (d \div g)>>

RInt(a) == <<a, 1>>
RZero == RInt(0)
ROne == RInt(1)
RAdd(p, q) ==
    IF p[1] = 0 THEN q
    ELSE IF q[1] = 0 THEN p
    ELSE Rat(p[1] * q[2] + q[1] * p[2], p[2] * q[2])
RNeg(p) == <<-p[1], p[2]>>
RSub(p, q) == RAdd(p, RNeg(q))
RMul(p, q) ==
    IF p[1] = 0 \/ q[1] = 0 THEN RZero
    ELSE Rat(p[1] * q[1], p[2] * q[2])
RDiv(p, q) == Rat(p[1] * q[2], p[2] * q[1])
RLeq(p, q) == p[1] * q[2] <= q[1] * p[2]
RLess(p, q) == p[1] * q[2] < q[1] * p[2]
RAbs(p) == <<Abs(p[1]), p[2]>>

\* np.inf is written <<1, 0>>; a finite value plus it is <<1, 0>> again.
RInf == <<1, 0>>
isfinite(p) == p[2] # 0

RECURSIVE RSum(_)
RSum(seq) == IF seq = <<>> THEN RZero ELSE RAdd(Head(seq), RSum(Tail(seq)))

\* An array holds values: the function f written out item by item.
array(f) == SubSeq(f, 1, Len(f))

(***************************************************************************)
(* utils/grid.py                                                           *)
(***************************************************************************)
\* Variant: the step of endpoint=False, (stop - start)/num, so that the
\* last point falls short of stop.
linspace_open(start, stop, num) ==
    IF num <= 0 THEN <<>>
    ELSE LET step == Rat(stop - start, num)
         IN  array([i \in 1 .. num |->
                RAdd(RInt(start), RMul(RInt(i - 1), step))])

\* np.linspace(start, stop, num): num points, step (stop - start)/(num - 1),
\* the last point set to stop.
linspace(start, stop, num) ==
    IF num <= 0 THEN <<>>
    ELSE IF num = 1 THEN <<RInt(start)>>
    ELSE LET step == Rat(stop - start, num - 1)
         IN  array([i \in 1 .. num |->
                IF i = num THEN RInt(stop)
                ELSE RAdd(RInt(start), RMul(RInt(i - 1), step))])

\* Variant: a guard that refuses a 2D grid only when both axes are short.
grid2d_rejects_both(num_x, num_y) == num_x < 2 /\ num_y < 2

\* The guard of create_1d_grid: the resolutions it refuses.
grid1d_rejects(num_points) == num_points < 2

\* The guard of create_2d_grid.
grid2d_rejects(num_x, num_y) == num_x < 2 \/ num_y < 2

\* The spacing both builders return: x[1] - x[0].
spacing(x) == RSub(x[2], x[1])

create_1d_grid(xmin, xmax, num_points) ==
    IF grid1d_rejects(num_points)
    THEN [ok |-> FALSE, exc |-> "ValueError", at |-> "create_1d_grid"]
    ELSE LET x == linspace(xmin, xmax, num_points)
         IN  IF Len(x) < 2
             THEN [ok |-> FALSE, exc |-> "IndexError", at |-> "create_1d_grid"]
             ELSE [ok |-> TRUE, dim |-> 1, x |-> x, dx |-> spacing(x)]

\* np.meshgrid(x, y, indexing='ij'): X[i][j] = x[i], Y[i][j] = y[j].
meshgrid_ij(x, y) ==
    [X |-> array([i \in 1 .. Len(x) |-> array([j \in 1 .. Len(y) |-> x[i]])]),
     Y |-> array([i \in 1 .. Len(x) |-> array([j \in 1 .. Len(y) |-> y[j]])])]

create_2d_grid(xmin, xmax, num_x, ymin, ymax, num_y) ==
    IF grid2d_rejects(num_x, num_y)
    THEN [ok |-> FALSE, exc |-> "ValueError", at |-> "create_2d_grid"]
    ELSE LET x == linspace(xmin, xmax, num_x)
             y == linspace(ymin, ymax, num_y)
         IN  IF Len(x) < 2 \/ Len(y) < 2
             THEN [ok |-> FALSE, exc |-> "IndexError", at |-> "create_2d_grid"]
             ELSE [ok |-> TRUE, dim |-> 2,
                   X |-> meshgrid_ij(x, y).X, Y |-> meshgrid_ij(x, y).Y,
                   dx |-> spacing(x), dy |-> spacing(y)]

(***************************************************************************)
(* Arrays.  A 2D array of shape (Nx, Ny) is a sequence of Nx rows of Ny    *)
(* items; ravel and reshape are numpy's C-order (row-major) conversions.   *)
(***************************************************************************)
\* a.ravel() for a of shape (Nx, Ny): flat[i*Ny + j] = a[i][j].
ravel(a) ==
    LET Nx == Len(a)
        Ny == Len(a[1])
    IN  array([k \in 1 .. Nx * Ny |->
                a[((k - 1) \div Ny) + 1][((k - 1) % Ny) + 1]])

\* v.reshape((Nx, Ny)): a[i][j] = v[i*Ny + j].
reshape(v, Nx, Ny) ==
    array([i \in 1 .. Nx |->
            array([j \in 1 .. Ny |-> v[(i - 1) * Ny + (j - 1) + 1]])])

\* Python's seq[:k] for any integer k (a negative k counts from the end).
slice_to(seq, k) ==
    LET n == Len(seq)
        stop == IF k >= 0 THEN (IF k < n THEN k ELSE n)
                ELSE (IF n + k > 0 THEN n + k ELSE 0)
    IN  SubSeq(seq, 1, stop)

(***************************************************************************)
(* potentials/basic.py                                                     *)
(***************************************************************************)
\* linear_ramp_1d(x, slope, offset) = slope * x + offset
linear_ramp_1d(x, slope, offset) ==
    array([k \in 1 .. Len(x) |-> RAdd(RMul(RInt(slope), x[k]), RInt(offset))])

\* infinite_well_1d(x, xmin, xmax): 0, and np.inf on the points with
\* x < xmin or x > xmax.
infinite_well_1d(x, xmin, xmax) ==
    array([k \in 1 .. Len(x) |->
            IF RLess(x[k], xmin) \/ RLess(xmax, x[k]) THEN RInf ELSE RZero])

\* finite_square_well_1d(x, xmin, xmax, V0, V_out): V0 on the points inside
\* [xmin, xmax], V_out on the others (the bounds and values are rationals).
finite_square_well_1d(x, xmin, xmax, V0, V_out) ==
    array([k \in 1 .. Len(x) |->
            IF RLeq(xmin, x[k]) /\ RLeq(x[k], xmax) THEN V0 ELSE V_out])

\* linear_ramp_2d(X, Y, slope_x, slope_y, offset)
linear_ramp_2d(X, Y, slope_x, slope_y, offset) ==
    array([i \in 1 .. Len(X) |-> array([j \in 1 .. Len(X[1]) |->
        RAdd(RAdd(RMul(RInt(slope_x), X[i][j]), RMul(RInt(slope_y), Y[i][j])),
             RInt(offset))])])

(***************************************************************************)
(* Hamiltonian assembly (the opening lines of all four solvers).           *)
(***************************************************************************)
\* diags([off, main, off], [-1, 0, 1]) / d**2 with main = -2, off = 1.
laplacian_1d(N, d) ==
    array([r \in 1 .. N |-> array([c \in 1 .. N |->
        IF r = c THEN RDiv(RInt(-2), RMul(d, d))
        ELSE IF Abs(r - c) = 1 THEN RDiv(ROne, RMul(d, d))
        ELSE RZero])])

identity(N) ==
    array([r \in 1 .. N |->
            array([c \in 1 .. N |-> IF r = c THEN ROne ELSE RZero])])

\* scipy.sparse.kron(A, B): entry (ra*nB + rb, ca*nB + cb) = A[ra][ca] * B[rb][cb].
kron(A, B) ==
    LET nA == Len(A)
        nB == Len(B)
    IN  array([r \in 1 .. nA * nB |-> array([c \in 1 .. nA * nB |->
            RMul(A[((r - 1) \div nB) + 1][((c - 1) \div nB) + 1],
                 B[((r - 1) % nB) + 1][((c - 1) % nB) + 1])])])

mat_add(A, B) ==
    array([r \in 1 .. Len(A) |->
            array([c \in 1 .. Len(A) |-> RAdd(A[r][c], B[r][c])])])

mat_scale(q, A) ==
    array([r \in 1 .. Len(A) |->
            array([c \in 1 .. Len(A) |-> RMul(q, A[r][c])])])

\* diags(V, 0)
diag_op(V) ==
    array([r \in 1 .. Len(V) |->
            array([c \in 1 .. Len(V) |-> IF r = c THEN V[r] ELSE RZero])])

\* -(hbar**2) / (2 * mass)
kinetic_factor(mass, hbar) == RDiv(RInt(-(hbar * hbar)), RInt(2 * mass))

\* H = T + V_op of solve_time_independent_1d and solve_time_dependent_1d.
hamiltonian_1d(x, V, mass, hbar) ==
    LET N == Len(x)
        dx == RSub(x[2], x[1])
        T == mat_scale(kinetic_factor(mass, hbar), laplacian_1d(N, dx))
    IN  mat_add(T, diag_op(V))

\* The 2D Laplacian as the code assembles it.
laplacian_2d(Nx, Ny, dx, dy) ==
    mat_add(kron(identity(Ny), laplacian_1d(Nx, dx)),
            kron(laplacian_1d(Ny, dy), identity(Nx)))

\* H = T + V_op of solve_time_independent_2d and solve_time_dependent_2d.
hamiltonian_2d(X, Y, V, mass, hbar) ==
    LET Nx == Len(X)
        Ny == Len(X[1])
        dx == RSub(X[2][1], X[1][1])
        dy == RSub(Y[1][2], Y[1][1])
        T == mat_scale(kinetic_factor(mass, hbar), laplacian_2d(Nx, Ny, dx, dy))
    IN  mat_add(T, diag_op(ravel(V)))

(***************************************************************************)
(* Wavefunctions and grid quadrature.                                      *)
(***************************************************************************)
CAbs2(z) == z[1] * z[1] + z[2] * z[2]

\* np.abs(psi)**2 of the vector amp / sqrt(s).
density(amp, s) ==
    array([k \in 1 .. Len(amp) |-> RDiv(RInt(CAbs2(amp[k])), s)])

\* np.trapz(y, x) = sum over k of (x[k+1] - x[k]) * (y[k+1] + y[k]) / 2.
trapz(y, x) ==
    RSum([k \in 1 .. Len(x) - 1 |->
            RDiv(RMul(RSub(x[k + 1], x[k]), RAdd(y[k + 1], y[k])), RInt(2))])

\* np.trapz(np.abs(psi)**2, x): the square of the 1D normalization constant.
norm2_1d(psi, x) == trapz(density(psi.amp, psi.s), x)

\* np.abs(wf)**2 of the 2D array amp / sqrt(s).
density_2d(amp, s) ==
    array([i \in 1 .. Len(amp) |-> array([j \in 1 .. Len(amp[1]) |->
        RDiv(RInt(CAbs2(amp[i][j])), s)])])

\* np.trapz(np.trapz(np.abs(wf)**2, Y[0,:]), X[:,0]): the inner rule runs
\* along the last axis with the coordinates Y[0,:], the outer one over X[:,0].
norm2_2d(wf, X, Y) ==
    LET Nx == Len(X)
        dens == density_2d(wf.amp, wf.s)
        xcol == [i \in 1 .. Nx |-> X[i][1]]
    IN  trapz([i \in 1 .. Nx |-> trapz(dens[i], Y[1])], xcol)

\* psi / sqrt(n2): the vector amp / sqrt(s * n2).  A zero or negative n2
\* makes every entry nan or inf; that result is written with scale 0.
divide_by_sqrt(psi, n2) ==
    IF RLeq(n2, RZero) THEN [amp |-> psi.amp, s |-> RZero]
    ELSE [amp |-> psi.amp, s |-> RMul(psi.s, n2)]

\* Variant: the eigenvector is returned as the eigensolver gave it.
normalize_1d_skipped(psi, x) == psi

\* norm = np.sqrt(np.trapz(np.abs(psi)**2, x)); psi /= norm
normalize_1d(psi, x) == divide_by_sqrt(psi, norm2_1d(psi, x))

\* the same with the nested 2D quadrature
normalize_2d(psi, X, Y) == divide_by_sqrt(psi, norm2_2d(psi, X, Y))

\* The quadrature integral of |psi|^2 of a returned wavefunction (0 for nan).
QuadNorm1D(psi, x) == IF psi.s = RZero THEN RZero ELSE norm2_1d(psi, x)
QuadNorm2D(psi, X, Y) == IF psi.s = RZero THEN RZero ELSE norm2_2d(psi, X, Y)

\* The Euclidean norm squared, sum |psi_k|^2, of a flat vector.
Euclid2(psi) == RSum(density(psi.amp, psi.s))

\* reshape and ravel of a wavefunction act on its entries
reshape_wf(psi, Nx, Ny) == [amp |-> reshape(psi.amp, Nx, Ny), s |-> psi.s]
ravel_wf(wf) == [amp |-> ravel(wf.amp), s |-> wf.s]

(***************************************************************************)
(* The eigensolvers of scipy, by their contracts.  scipy.linalg.eigh       *)
(* returns all eigenvalues in ascending order with orthonormal             *)
(* eigenvectors (Euclidean unit norm); inside a degenerate eigenspace the  *)
(* basis is the solver's choice.  The model finds the eigenvectors among   *)
(* the vectors with entries in -2 .. 2 by checking H v = lambda v, so it   *)
(* covers the Hamiltonians whose eigenvectors have that shape: two points  *)
(* per axis under a constant potential, and three points with a step of    *)
(* 1/(2 dx^2) on the middle one.                                           *)
(***************************************************************************)
EigCandidates(N) ==
    {v \in [1 .. N -> -2 .. 2] :
        \E k \in 1 .. N : v[k] = 1 /\ \A m \in 1 .. k - 1 : v[m] = 0}

Dot(u, v) == RSum([k \in 1 .. Len(u) |-> RMul(u[k], v[k])])

IntVec(v) == [k \in 1 .. Len(v) |-> RInt(v[k])]

mat_vec(H, v) == [r \in 1 .. Len(H) |-> Dot(H[r], IntVec(v))]

Rayleigh(H, v) == RDiv(Dot(IntVec(v), mat_vec(H, v)), Dot(IntVec(v), IntVec(v)))

IsEigenvector(H, v) ==
    LET Hv == mat_vec(H, v)
        lam == Rayleigh(H, v)
    IN  \A r \in 1 .. Len(H) : Hv[r] = RMul(lam, RInt(v[r]))

\* An eigenvector as the solver returns it: real, Euclidean norm 1.
UnitVector(v) ==
    [amp |-> [k \in 1 .. Len(v) |-> <<v[k], 0>>],
     s |-> Dot(IntVec(v), IntVec(v))]

\* The eigenvectors of H among the candidates, each with its eigenvalue.
eigenpairs(H) ==
    {[v |-> v, lam |-> Rayleigh(H, v)] :
        v \in {u \in EigCandidates(Len(H)) : IsEigenvector(H, u)}}

RECURSIVE IntDot(_, _)
IntDot(u, v) ==
    IF u = <<>> THEN 0 ELSE Head(u) * Head(v) + IntDot(Tail(u), Tail(v))

\* The orthogonal bases of eigenvectors in ascending order of eigenvalue
\* that extend prefix to N vectors.
RECURSIVE eigenbases(_, _, _)
eigenbases(pairs, prefix, N) ==
    IF Len(prefix) = N THEN {prefix}
    ELSE UNION {eigenbases(pairs, Append(prefix, p), N) :
                  p \in {q \in pairs : \A k \in 1 .. Len(prefix) :
                            /\ IntDot(prefix[k].v, q.v) = 0
                            /\ RLeq(prefix[k].lam, q.lam)}}

\* The decompositions eigh(H) may return: [vals, vecs], ascending.
eigh(H) ==
    {[vals |-> [k \in 1 .. Len(H) |-> W[k].lam],
      vecs |-> [k \in 1 .. Len(H) |-> UnitVector(W[k].v)]] :
        W \in eigenbases(eigenpairs(H), <<>>, Len(H))}

\* The items of seq at the positions in S, in their order in seq.
RECURSIVE TakeAt(_, _, _)
TakeAt(seq, S, k) ==
    IF k > Len(seq) THEN <<>>
    ELSE IF k \in S THEN <<seq[k]>> \o TakeAt(seq, S, k + 1)
    ELSE TakeAt(seq, S, k + 1)

\* which='SM': the k eigenvalues of smallest magnitude.
smallest_magnitude(vals, k) ==
    {S \in SUBSET (1 .. Len(vals)) :
        /\ Cardinality(S) = k
        /\ \A a \in S : \A b \in (1 .. Len(vals)) \ S :
              RLeq(RAbs(vals[a]), RAbs(vals[b]))}

\* scipy.sparse.linalg.eigsh(H, k=k, which='SM') on a sparse H: k must be
\* positive and below N; the k selected eigenpairs come back in ascending
\* order of eigenvalue (ARPACK's dseupd).
eigsh(H, k) ==
    IF k <= 0 THEN {[ok |-> FALSE, exc |-> "ValueError"]}
    ELSE IF k >= Len(H) THEN {[ok |-> FALSE, exc |-> "TypeError"]}
    ELSE UNION {{[ok |-> TRUE, vals |-> TakeAt(dec.vals, S, 1),
                  vecs |-> TakeAt(dec.vecs, S, 1)] :
                    S \in smallest_magnitude(dec.vals, k)} : dec \in eigh(H)}

(***************************************************************************)
(* solvers/schrodinger_1d.py and solvers/schrodinger_2d.py: the stationary *)
(* solvers.  Each operator is the set of outcomes of one call: a record    *)
(* [ok |-> TRUE, ...] for a return value, [ok |-> FALSE, exc |-> ...] for  *)
(* a raised exception.                                                     *)
(***************************************************************************)
\* range(k)
range(k) == 0 .. k - 1

\* Variant: the loop stops at the number of columns kept.
loop_columns_kept(num_eigen, ncols) ==
    range(IF num_eigen < ncols THEN num_eigen ELSE ncols)

\* The columns the normalization loop of solve_time_independent_1d visits:
\* for n in range(num_eigen), whatever the number of columns kept.
loop_columns_1d(num_eigen, ncols) == range(num_eigen)

\* Lines 34-41 of solve_time_independent_1d, after eigh returned dec.
select_and_normalize_1d(x, dec, num_eigen) ==
    LET energies == slice_to(dec.vals, num_eigen)
        wavefuncs == slice_to(dec.vecs, num_eigen)
        loop == loop_columns_1d(num_eigen, Len(wavefuncs))
    IN  IF \E n \in loop : n >= Len(wavefuncs)
        THEN [ok |-> FALSE, exc |-> "IndexError", at |-> "solve_time_independent_1d"]
        ELSE [ok |-> TRUE, energies |-> energies,
              wavefuncs |-> [c \in 1 .. Len(wavefuncs) |->
                  IF c - 1 \in loop THEN normalize_1d(wavefuncs[c], x)
                  ELSE wavefuncs[c]]]

\* scipy.linalg.eigh checks its argument (check_finite=True) and raises
\* ValueError when an entry is inf or nan.
check_finite(H) == \A r, c \in 1 .. Len(H) : isfinite(H[r][c])

solve_time_independent_1d(x, V, mass, hbar, num_eigen) ==
    LET H_dense == hamiltonian_1d(x, V, mass, hbar)
    IN  IF ~check_finite(H_dense)
        THEN {[ok |-> FALSE, exc |-> "ValueError",
               at |-> "solve_time_independent_1d"]}
        ELSE {select_and_normalize_1d(x, dec, num_eigen) : dec \in eigh(H_dense)}

\* Lines 36-43 of solve_time_independent_2d, after eigsh returned res.
reshape_and_normalize_2d(X, Y, res, num_eigen) ==
    LET Nx == Len(X)
        Ny == Len(X[1])
    IN  IF ~res.ok
        THEN [ok |-> FALSE, exc |-> res.exc, at |-> "solve_time_independent_2d"]
        ELSE IF \E n \in range(num_eigen) : n >= Len(res.vecs)
        THEN [ok |-> FALSE, exc |-> "IndexError", at |-> "solve_time_independent_2d"]
        ELSE [ok |-> TRUE, energies |-> res.vals,
              wavefuncs |-> [c \in 1 .. num_eigen |->
                  normalize_2d(reshape_wf(res.vecs[c], Nx, Ny), X, Y)]]

solve_time_independent_2d(X, Y, V, mass, hbar, num_eigen) ==
    {reshape_and_normalize_2d(X, Y, res, num_eigen) :
        res \in eigsh(hamiltonian_2d(X, Y, V, mass, hbar), num_eigen)}

(***************************************************************************)
(* The propagators.  A complex matrix is a record [re, im] of two rational *)
(* matrices.                                                               *)
(***************************************************************************)
\* Variant: the method name compared without regard to case.
supported_method_anycase(method) ==
    method \in {"crank-nicolson", "Crank-Nicolson"}

\* The one method name the propagators accept (lines 57 and 59).
supported_method(method) == method = "crank-nicolson"

\* Variant: dt taken from the last two time points.
last_interval(times) == times[Len(times)] - times[Len(times) - 1]

\* dt = times[1] - times[0]
first_interval(times) == times[2] - times[1]

\* A = I + 1j * dt * H / (2 * hbar)
cn_left(H, dt, hbar) ==
    [re |-> identity(Len(H)), im |-> mat_scale(Rat(dt, 2 * hbar), H)]

\* B = I - 1j * dt * H / (2 * hbar)
cn_right(H, dt, hbar) ==
    [re |-> identity(Len(H)), im |-> mat_scale(Rat(-dt, 2 * hbar), H)]

\* lu = splu(A): the factorization object, which stands for A.
splu(A) == [A |-> A]

IsZeroMatrix(M) == \A r, c \in 1 .. Len(M) : M[r][c] = RZero

\* The directions the model lets a linear solve return, as amplitude
\* vectors of length N: one supported on the first grid point only, and
\* one with a complex entry on every point.
SolveDirections(N) ==
    {[k \in 1 .. N |-> IF k = 1 THEN <<1, 0>> ELSE <<0, 0>>],
     [k \in 1 .. N |-> IF k % 2 = 1 THEN <<1, 0>> ELSE <<0, 1>>]}

\* lu.solve(B.dot(psi)): the vector y with A y = B psi.  H is real and
\* symmetric, so y = psi when dt * H = 0, and in every case y has the
\* Euclidean norm of psi (the Cayley transform is unitary) and is not zero.
\* Its entries are not computed: y ranges over SolveDirections, scaled to
\* that norm.
cn_solve(lu, B, psi) ==
    IF IsZeroMatrix(lu.A.im) /\ IsZeroMatrix(B.im) THEN {psi}
    ELSE {[amp |-> a,
           s |-> RDiv(RInt(IntDot([k \in 1 .. Len(a) |-> CAbs2(a[k])],
                                  [k \in 1 .. Len(a) |-> 1])),
                      Euclid2(psi))] : a \in SolveDirections(Len(psi.amp))}

\* Lines 57-74 of solve_time_dependent_1d: everything before the loop.
setup_time_dependent_1d(x, psi0, V, times, mass, hbar, method) ==
    IF ~supported_method(method)
    THEN [ok |-> FALSE, exc |-> "NotImplementedError", at |-> "solve_time_dependent_1d"]
    ELSE IF Len(times) < 2
    THEN [ok |-> FALSE, exc |-> "IndexError", at |-> "solve_time_dependent_1d"]
    ELSE LET dt == first_interval(times)
             H == hamiltonian_1d(x, V, mass, hbar)
         IN  [ok |-> TRUE, psi_t |-> <<psi0>>, H |-> H,
              lu |-> splu(cn_left(H, dt, hbar)), B |-> cn_right(H, dt, hbar)]

\* One pass of the loop of solve_time_dependent_1d (lines 76-80): the
\* snapshots it may store at index n, given the one stored at n - 1.
step_time_dependent_1d(x, lu, B, prev) ==
    {normalize_1d(y, x) : y \in cn_solve(lu, B, prev)}

\* Variant: the loop stores the solve's result without rescaling it.
step_unscaled_2d(X, Y, lu, B, vec) == cn_solve(lu, B, vec)

\* Lines 59-84 of solve_time_dependent_2d: everything before the loop.
setup_time_dependent_2d(X, Y, psi0, V, times, mass, hbar, method) ==
    IF ~supported_method(method)
    THEN [ok |-> FALSE, exc |-> "NotImplementedError", at |-> "solve_time_dependent_2d"]
    ELSE IF Len(times) < 2
    THEN [ok |-> FALSE, exc |-> "IndexError", at |-> "solve_time_dependent_2d"]
    ELSE LET dt == first_interval(times)
             H == hamiltonian_2d(X, Y, V, mass, hbar)
         IN  [ok |-> TRUE, psi_t |-> <<psi0>>, H |-> H,
              lu |-> splu(cn_left(H, dt, hbar)), B |-> cn_right(H, dt, hbar),
              psi_vec |-> ravel_wf(psi0)]

\* One pass of the loop of solve_time_dependent_2d (lines 86-91): the
\* values psi_vec may take; the snapshot stored is its reshape.
step_time_dependent_2d(X, Y, lu, B, vec) ==
    {divide_by_sqrt(y, norm2_2d(reshape_wf(y, Len(X), Len(X[1])), X, Y)) :
        y \in cn_solve(lu, B, vec)}

(***************************************************************************)
(* The requests the model submits: the four solve endpoints of main.py,    *)
(* kinds "ti1d", "td1d", "ti2d", "td2d".  mass and hbar keep their         *)
(* defaults, xmin < xmax, num_eigen >= 1 and psi0 is not zero.             *)
(***************************************************************************)
Grid1DInputs ==
    [xmin : {-1, 0}, xmax : 1 .. MaxCoord, num_points : 0 .. MaxPoints]

Grid2DInputs ==
    [xmin : {0}, xmax : {1}, num_x : 1 .. MaxPoints,
     ymin : {0}, ymax : {2}, num_y : 1 .. MaxPoints]

\* Potentials: the ramps slope * x + offset (slope on both axes in 2D),
\* and in 1D a step of height 2 on the point x = 1/2, the square well on
\* that point with the default V_out = np.inf, and the infinite wells on
\* that point and on [-1, 2], which holds every grid.
RampInputs == [kind : {"ramp"}, slope : {0, 1}, offset : {-3, 0}]

WellInputs ==
    {[kind |-> "well", xmin |-> Rat(1, 2), xmax |-> Rat(1, 2),
      V0 |-> RInt(2), V_out |-> RZero],
     [kind |-> "well", xmin |-> Rat(1, 2), xmax |-> Rat(1, 2),
      V0 |-> RZero, V_out |-> RInf]}

InfiniteWellInputs ==
    {[kind |-> "infinite_well", xmin |-> Rat(1, 2), xmax |-> Rat(1, 2)],
     [kind |-> "infinite_well", xmin |-> RInt(-1), xmax |-> RInt(2)]}

PotentialInputs(r) ==
    IF r.kind = "ti1d" THEN RampInputs \cup WellInputs \cup InfiniteWellInputs
    ELSE IF r.kind = "ti2d" THEN RampInputs
    ELSE {q \in RampInputs : q.offset = 0}

MethodNames == {"crank-nicolson", "Crank-Nicolson"}

\* Time points: n equally spaced points from 0 with step dt, and one
\* sequence whose spacing changes after the first interval.
TimeInputs ==
    {[k \in 1 .. n |-> (k - 1) * dt] : n \in 1 .. MaxTimes, dt \in {0, 1}}
        \cup {[k \in 1 .. n |-> IF k <= 2 THEN k - 1 ELSE 3 * (k - 2)] :
                n \in 3 .. MaxTimes}

\* Initial wavefunctions, not normalized: on the first grid point only, or
\* the same value on every point.
Psi0Shapes == {"edge", "flat"}

initial_amplitudes(shape, N) ==
    array([k \in 1 .. N |->
            IF shape = "flat" \/ k = 1 THEN <<1, 0>> ELSE <<0, 0>>])

StationaryInputs(r) ==
    {[potential |-> q, num_eigen |-> k] :
        q \in PotentialInputs(r), k \in 1 .. MaxK}

\* via: "api" for a request to main.py, "call" for a direct call of the
\* solver with psi0 as it is.
PropagationInputs(r) ==
    [potential : PotentialInputs(r), psi0 : Psi0Shapes,
     times : TimeInputs, method : MethodNames, via : {"api", "call"}]

\* A request as it arrives: its kind and its grid fields.  The fields the
\* solver takes are read into "in" when the handler reaches them.
Requests ==
    {[kind |-> k, grid |-> g, in |-> <<>>] :
        k \in {"ti1d", "td1d"}, g \in Grid1DInputs}
      \cup {[kind |-> k, grid |-> g, in |-> <<>>] :
        k \in {"ti2d", "td2d"}, g \in Grid2DInputs}

Is1D(r) == r.kind \in {"ti1d", "td1d"}
IsStationary(r) == r.kind \in {"ti1d", "ti2d"}

\* mass=1.0 and hbar=1.0, the defaults of every solver and request.
DefaultMass == 1
DefaultHbar == 1

build_grid(r) ==
    IF Is1D(r)
    THEN create_1d_grid(r.grid.xmin, r.grid.xmax, r.grid.num_points)
    ELSE create_2d_grid(r.grid.xmin, r.grid.xmax, r.grid.num_x,
                        r.grid.ymin, r.grid.ymax, r.grid.num_y)

build_potential(r, g, q) ==
    IF ~Is1D(r) THEN linear_ramp_2d(g.X, g.Y, q.slope, q.slope, q.offset)
    ELSE IF q.kind = "well"
    THEN finite_square_well_1d(g.x, q.xmin, q.xmax, q.V0, q.V_out)
    ELSE IF q.kind = "infinite_well"
    THEN infinite_well_1d(g.x, q.xmin, q.xmax)
    ELSE linear_ramp_1d(g.x, q.slope, q.offset)

GridSize(g) == IF g.dim = 1 THEN Len(g.x) ELSE Len(g.X) * Len(g.X[1])

build_hamiltonian(r, g, pot) ==
    IF Is1D(r)
    THEN hamiltonian_1d(g.x, pot, DefaultMass, DefaultHbar)
    ELSE hamiltonian_2d(g.X, g.Y, pot, DefaultMass, DefaultHbar)

\* The potentials of a stationary request on grid g whose eigenvectors the
\* model can write down, and those the eigensolver refuses.
Representable(r, g) ==
    {q \in PotentialInputs(r) :
        /\ GridSize(g) <= MaxEigN
        /\ LET Hq == build_hamiltonian(r, g, build_potential(r, g, q))
           IN  ~check_finite(Hq) \/ eigh(Hq) # {}}

\* A stationary request is submitted when its grid is refused or has a
\* representable potential.
Submittable(r) ==
    LET g == build_grid(r)
    IN  IsStationary(r) /\ g.ok => Representable(r, g) # {}

\* main.py, solve_*_timedependent: psi0 = psi0.astype(complex);
\* psi0 /= np.sqrt(np.trapz(...)).  A direct call of the solver passes
\* psi0 as it is.
prepare_psi0(r, g, a) ==
    LET N == GridSize(g)
        raw == [amp |-> initial_amplitudes(a.psi0, N), s |-> ROne]
    IN  IF Is1D(r)
        THEN (IF a.via = "api" THEN normalize_1d(raw, g.x) ELSE raw)
        ELSE LET wf == reshape_wf(raw, Len(g.X), Len(g.X[1]))
             IN  IF a.via = "api" THEN normalize_2d(wf, g.X, g.Y) ELSE wf

\* The outcome of a handler: status 200 when it returns its result, and
\* except Exception as e: raise HTTPException(status_code=400, detail=str(e))
respond(outcome) ==
    IF outcome.ok THEN [status |-> 200]
    ELSE [status |-> 400, exc |-> outcome.exc, at |-> outcome.at]

(***************************************************************************)
(* utils/numerics.py: expectation values.  Here psi is an array of         *)
(* Gaussian integers <<re, im>>, a complex number is a pair <<re, im>> of  *)
(* rationals, and a call returns [ok |-> TRUE, value |-> v] or raises      *)
(* [ok |-> FALSE, exc |-> ..., at |-> ...].                                 *)
(***************************************************************************)
\* np.abs(psi)**2
probability_density(psi) ==
    array([k \in 1 .. Len(psi) |-> RInt(CAbs2(psi[k]))])

probability_density_2d(psi) ==
    array([i \in 1 .. Len(psi) |-> probability_density(psi[i])])

\* np.sum over every entry of a 1D or of a 2D array
np_sum(a) == RSum(a)
np_sum_2d(a) == RSum(ravel(a))

\* elementwise product of two arrays of one shape
times_1d(a, b) == array([k \in 1 .. Len(a) |-> RMul(a[k], b[k])])
times_2d(a, b) == array([i \in 1 .. Len(a) |-> times_1d(a[i], b[i])])

\* an array times a scalar
scaled_1d(a, q) == array([k \in 1 .. Len(a) |-> RMul(a[k], q)])
scaled_2d(a, q) == array([i \in 1 .. Len(a) |-> scaled_1d(a[i], q)])

\* Complex numbers with rational parts.
CRat(z) == <<RInt(z[1]), RInt(z[2])>>
CAdd(u, v) == <<RAdd(u[1], v[1]), RAdd(u[2], v[2])>>
CSub(u, v) == <<RSub(u[1], v[1]), RSub(u[2], v[2])>>
CMul(u, v) ==
    <<RSub(RMul(u[1], v[1]), RMul(u[2], v[2])),
      RAdd(RMul(u[1], v[2]), RMul(u[2], v[1]))>>
CScale(q, u) == <<RMul(q, u[1]), RMul(q, u[2])>>
CConj(u) == <<u[1], RNeg(u[2])>>
complex_array(psi) == array([k \in 1 .. Len(psi) |-> CRat(psi[k])])

\* np.gradient(f, dx) of a 1D complex array of at least two entries:
\* central differences inside, one-sided first-order ones at both ends.
gradient(f, dx) ==
    LET N == Len(f)
    IN  array([k \in 1 .. N |->
            IF k = 1 THEN CScale(RDiv(ROne, dx), CSub(f[2], f[1]))
            ELSE IF k = N THEN CScale(RDiv(ROne, dx), CSub(f[N], f[N - 1]))
            ELSE CScale(RDiv(ROne, RMul(RInt(2), dx)),
                        CSub(f[k + 1], f[k - 1]))])

\* The real part of np.conj(psi) * Opsi, entry by entry.
re_conj_times(psi, Opsi) ==
    array([k \in 1 .. Len(psi) |-> CMul(CConj(psi[k]), Opsi[k])[1]])

\* The integrands of the 1D expectation values (the arrays handed to
\* np.sum): x * dens; conj(psi) * (-1j * hbar * dpsi_dx);
\* conj(psi) * (kinetic + V * psi); conj(psi) * op(x, psi).
integrand_x(x, psi) == times_1d(x, probability_density(psi))

integrand_p(x, psi, hbar) ==
    LET f == complex_array(psi)
        dpsi_dx == gradient(f, RSub(x[2], x[1]))
    IN  re_conj_times(f, [k \in 1 .. Len(f) |->
            CMul(<<RZero, RNeg(RInt(hbar))>>, dpsi_dx[k])])

integrand_energy(x, psi, V, mass, hbar) ==
    LET dx == RSub(x[2], x[1])
        f == complex_array(psi)
        d2psi_dx2 == gradient(gradient(f, dx), dx)
        c == Rat(-(hbar * hbar), 2 * mass)
    IN  re_conj_times(f, [k \in 1 .. Len(f) |->
            CAdd(CScale(c, d2psi_dx2[k]), CScale(V[k], f[k]))])

\* op(x, psi) = x * psi, the position operator as a caller passes it
integrand_observable(x, psi) ==
    LET f == complex_array(psi)
    IN  re_conj_times(f, [k \in 1 .. Len(f) |-> CScale(x[k], f[k])])

\* np.sum(O) * dx / np.sum(np.abs(psi)**2 * dx) with dx = x[1] - x[0]:
\* the last line of expectation_p, _energy, _observable and _custom_expr_1d
\* (the real part, where the code takes it or the value is real).
sum_ratio_1d(O, x, psi) ==
    LET dx == RSub(x[2], x[1])
    IN  RDiv(RMul(np_sum(O), dx),
             np_sum(scaled_1d(probability_density(psi), dx)))

\* expectation_x(x, psi) = np.sum(x * dens) / np.sum(dens)
expectation_x(x, psi) ==
    [ok |-> TRUE,
     value |-> RDiv(np_sum(integrand_x(x, psi)),
                    np_sum(probability_density(psi)))]

\* expectation_p(x, psi, hbar)
expectation_p(x, psi, hbar) ==
    IF Len(x) < 2
    THEN [ok |-> FALSE, exc |-> "IndexError", at |-> "expectation_p"]
    ELSE [ok |-> TRUE, value |-> sum_ratio_1d(integrand_p(x, psi, hbar), x, psi)]

\* expectation_energy(x, psi, V, mass, hbar)
expectation_energy(x, psi, V, mass, hbar) ==
    IF Len(x) < 2
    THEN [ok |-> FALSE, exc |-> "IndexError", at |-> "expectation_energy"]
    ELSE [ok |-> TRUE,
          value |-> sum_ratio_1d(integrand_energy(x, psi, V, mass, hbar), x, psi)]

\* expectation_observable(x, psi, op) with op(x, psi) = x * psi
expectation_observable(x, psi) ==
    IF Len(x) < 2
    THEN [ok |-> FALSE, exc |-> "IndexError", at |-> "expectation_observable"]
    ELSE [ok |-> TRUE, value |-> sum_ratio_1d(integrand_observable(x, psi), x, psi)]

\* np.sum(O) * dx * dy / np.sum(np.abs(psi)**2 * dx * dy): the last line
\* of the 2D expectation values.
sum_ratio_2d(O, X, Y, psi) ==
    LET dx == RSub(X[2][1], X[1][1])
        dy == RSub(Y[1][2], Y[1][1])
    IN  RDiv(RMul(RMul(np_sum_2d(O), dx), dy),
             np_sum_2d(scaled_2d(probability_density_2d(psi), RMul(dx, dy))))

\* expectation_x_2d(X, Y, psi) and expectation_y_2d(X, Y, psi):
\* np.sum(C * dens) * dx * dy / np.sum(dens * dx * dy) with C = X or Y.
expectation_coord_2d(C, X, Y, psi, name) ==
    IF Len(X) < 2 \/ Len(Y[1]) < 2
    THEN [ok |-> FALSE, exc |-> "IndexError", at |-> name]
    ELSE [ok |-> TRUE,
          value |-> sum_ratio_2d(times_2d(C, probability_density_2d(psi)),
                                 X, Y, psi)]

expectation_x_2d(X, Y, psi) == expectation_coord_2d(X, X, Y, psi, "expectation_x_2d")
expectation_y_2d(X, Y, psi) == expectation_coord_2d(Y, X, Y, psi, "expectation_y_2d")

\* The expressions handed to the evaluator, and the array each stands for.
\* numexpr raises KeyError for a name that is not among its variables.
ObservableExprs == {"abs(psi)**2", "x * abs(psi)**2", "X * abs(psi)**2"}

ne_evaluate_1d(expr, x, psi) ==
    IF expr = "abs(psi)**2"
    THEN [ok |-> TRUE, O |-> probability_density(psi)]
    ELSE IF expr = "x * abs(psi)**2"
    THEN [ok |-> TRUE, O |-> times_1d(x, probability_density(psi))]
    ELSE [ok |-> FALSE, exc |-> "KeyError", at |-> "expectation_custom_expr_1d"]

ne_evaluate_2d(expr, X, Y, psi) ==
    IF expr = "abs(psi)**2"
    THEN [ok |-> TRUE, O |-> probability_density_2d(psi)]
    ELSE IF expr = "X * abs(psi)**2"
    THEN [ok |-> TRUE, O |-> times_2d(X, probability_density_2d(psi))]
    ELSE [ok |-> FALSE, exc |-> "KeyError", at |-> "expectation_custom_expr_2d"]

\* expectation_custom_expr_1d(x, psi, expr):
\* dx = x[1] - x[0]; O = ne.evaluate(expr);
\* return np.sum(O) * dx / np.sum(np.abs(psi)**2 * dx)
expectation_custom_expr_1d(x, psi, expr) ==
    IF Len(x) < 2
    THEN [ok |-> FALSE, exc |-> "IndexError", at |-> "expectation_custom_expr_1d"]
    ELSE LET ev == ne_evaluate_1d(expr, x, psi)
         IN  IF ~ev.ok THEN ev
             ELSE [ok |-> TRUE, value |-> sum_ratio_1d(ev.O, x, psi)]

\* An optional field of a request: None, or the list that was sent.
None == <<>>
Some(v) == <<v>>

\* np.array(field): of None it is a 0-dimensional array, which no index
\* pair reaches.
np_array(field) == IF field = None THEN None ELSE field[1]

\* expectation_custom_expr_2d(X, Y, psi, expr), X, Y, psi as np.array made
\* them: dx = X[1,0] - X[0,0]; dy = Y[0,1] - Y[0,0]; O = ne.evaluate(expr);
\* return np.sum(O) * dx * dy / np.sum(np.abs(psi)**2 * dx * dy)
expectation_custom_expr_2d(X, Y, psi, expr) ==
    IF X = None \/ Len(X) < 2
    THEN [ok |-> FALSE, exc |-> "IndexError", at |-> "expectation_custom_expr_2d"]
    ELSE IF Y = None \/ Len(Y[1]) < 2
    THEN [ok |-> FALSE, exc |-> "IndexError", at |-> "expectation_custom_expr_2d"]
    ELSE LET ev == ne_evaluate_2d(expr, X, Y, psi)
         IN  IF ~ev.ok THEN ev
             ELSE [ok |-> TRUE, value |-> sum_ratio_2d(ev.O, X, Y, psi)]

(***************************************************************************)
(* main.py, eval_observable, and the observable calls the model makes.     *)
(***************************************************************************)
\* The truth value Python gives a field: None and the empty list are false.
truthy(field) == field # None /\ field[1] # <<>>

\* Variant: a 2D set counts as supplied without its Y.
complete_2d_without_Y(r) == truthy(r.X) /\ truthy(r.psi2d)

\* if req.x and req.psi
complete_1d(r) == truthy(r.x) /\ truthy(r.psi)

\* elif req.X and req.Y and req.psi2d
complete_2d(r) == truthy(r.X) /\ truthy(r.Y) /\ truthy(r.psi2d)

\* The try block of eval_observable.
eval_observable(r) ==
    IF complete_1d(r)
    THEN expectation_custom_expr_1d(np_array(r.x), np_array(r.psi), r.expr)
    ELSE IF complete_2d(r)
    THEN expectation_custom_expr_2d(np_array(r.X), np_array(r.Y),
                                    np_array(r.psi2d), r.expr)
    ELSE [ok |-> FALSE, exc |-> "ValueError", at |-> "eval_observable"]

\* Wavefunctions for the observables, none of them zero: on the first grid
\* point only, the same on every point, on every point but the first (of
\* two or more), and one whose phase turns from point to point.
ObsPsiShapes == {"edge", "flat", "tail", "twist"}
RealPsiShapes == {"edge", "flat", "tail"}

observable_amplitudes(shape, N) ==
    array([k \in 1 .. N |->
            IF shape = "edge" THEN (IF k = 1 THEN <<1, 0>> ELSE <<0, 0>>)
            ELSE IF shape = "flat" THEN <<1, 0>>
            ELSE IF shape = "tail"
            THEN (IF k = 1 /\ N > 1 THEN <<0, 0>> ELSE <<1, 0>>)
            ELSE (IF k % 2 = 1 THEN <<1, 0>> ELSE <<1, 1>>)])

\* The fields of an ObservableRequest: a 1D pair on linspace(0, 1, n), a 2D
\* set on the meshgrid of [0, 1] x [0, 2], each field sent or left None;
\* x may also be sent as the empty list.
ObservableFields == {"x", "psi", "X", "Y", "psi2d"}

ObservableRequests ==
    {[via |-> "api",
      x |-> IF "x" \in sent THEN Some(linspace(0, 1, np)) ELSE None,
      psi |-> IF "psi" \in sent THEN Some(observable_amplitudes(sh, np)) ELSE None,
      X |-> IF "X" \in sent
            THEN Some(meshgrid_ij(linspace(0, 1, nx), linspace(0, 2, ny)).X)
            ELSE None,
      Y |-> IF "Y" \in sent
            THEN Some(meshgrid_ij(linspace(0, 1, nx), linspace(0, 2, ny)).Y)
            ELSE None,
      psi2d |-> IF "psi2d" \in sent
                THEN Some(reshape(observable_amplitudes(sh, nx * ny), nx, ny))
                ELSE None,
      expr |-> e] :
        sent \in SUBSET ObservableFields, np \in 0 .. MaxPoints,
        nx \in 2 .. MaxPoints, ny \in 2 .. MaxPoints,
        sh \in RealPsiShapes, e \in ObservableExprs}

\* Direct calls of the expectation functions of numerics.py.
ExpectationCalls ==
    {[via |-> "call", fn |-> f, x |-> linspace(0, 1, np),
      psi |-> observable_amplitudes(sh, np), slope |-> m] :
        f \in {"expectation_x", "expectation_p", "expectation_energy",
               "expectation_observable"},
        np \in 1 .. MaxPoints, sh \in ObsPsiShapes, m \in {0, 1}}
      \cup
    {[via |-> "call", fn |-> f,
      X |-> meshgrid_ij(linspace(0, 1, nx), linspace(0, 2, ny)).X,
      Y |-> meshgrid_ij(linspace(0, 1, nx), linspace(0, 2, ny)).Y,
      psi |-> reshape(observable_amplitudes(sh, nx * ny), nx, ny)] :
        f \in {"expectation_x_2d", "expectation_y_2d"},
        nx \in 2 .. MaxPoints, ny \in 2 .. MaxPoints, sh \in ObsPsiShapes}

\* The outcome of one direct call; the energy is taken in the potential
\* V = slope * x.
call_expectation(c) ==
    IF c.fn = "expectation_x" THEN expectation_x(c.x, c.psi)
    ELSE IF c.fn = "expectation_p" THEN expectation_p(c.x, c.psi, DefaultHbar)
    ELSE IF c.fn = "expectation_energy"
    THEN expectation_energy(c.x, c.psi, linear_ramp_1d(c.x, c.slope, 0),
                            DefaultMass, DefaultHbar)
    ELSE IF c.fn = "expectation_observable" THEN expectation_observable(c.x, c.psi)
    ELSE IF c.fn = "expectation_x_2d" THEN expectation_x_2d(c.X, c.Y, c.psi)
    ELSE expectation_y_2d(c.X, c.Y, c.psi)

(***************************************************************************)
(* utils/numerics.py: save_simulation and load_simulation.  A file name is *)
(* the sequence of its stem and suffixes, <<"sim", ".npz">> for sim.npz.   *)
(* An array is [dtype, shape, items]; the archive written by               *)
(* np.savez_compressed holds, for every keyword, a member named            *)
(* keyword.npy with the array in .npy form: its header and its items in    *)
(* C order.  The file system maps the names of the files to contents.      *)
(***************************************************************************)
Filenames == {<<"sim">>, <<"sim", ".npz">>, <<"sim", ".dat">>}

\* np.savez_compressed(file, ...): ".npz" is appended to a file name that
\* does not end with it.
npz_path(file) ==
    IF file[Len(file)] = ".npz" THEN file ELSE Append(file, ".npz")

ndarray(dtype, shape, items) == [dtype |-> dtype, shape |-> shape, items |-> items]

\* The .npy form of an array, and the array read back from it.
npy_write(a) ==
    [descr |-> a.dtype, fortran_order |-> FALSE, shape |-> a.shape,
     data |-> IF Len(a.shape) = 2 THEN ravel(a.items) ELSE a.items]

npy_read(m) ==
    ndarray(m.descr, m.shape,
            IF Len(m.shape) = 2 THEN reshape(m.data, m.shape[1], m.shape[2])
            ELSE m.data)

\* The keywords a caller may pass, and the arrays of a simulation with n
\* grid points: the grid, a complex wavefunction, a 2D potential.
ArrayNames == {"x", "psi", "file"}

simulation_array(name, np) ==
    IF name = "x" THEN ndarray("float64", <<np>>, linspace(0, 1, np))
    ELSE IF name = "psi"
    THEN ndarray("complex128", <<np>>, observable_amplitudes("twist", np))
    ELSE ndarray("float64", <<np, 2>>,
                 meshgrid_ij(linspace(0, 1, np), linspace(0, 2, 2)).Y)

SaveCalls ==
    {[filename |-> f, kwargs |-> [name \in S |-> simulation_array(name, np)]] :
        f \in Filenames, S \in SUBSET ArrayNames, np \in 2 .. MaxPoints}

\* save_simulation(filename, **kwargs): np.savez_compressed(filename,
\* **kwargs).  Its first parameter is named file, so a keyword of that
\* name is a second value for it.  The result is the file system after the
\* call.
save_simulation(fs, filename, kwargs) ==
    IF "file" \in DOMAIN kwargs
    THEN [ok |-> FALSE, exc |-> "TypeError", at |-> "save_simulation", fs |-> fs]
    ELSE LET path == npz_path(filename)
             archive == [member \in {<<name, ".npy">> : name \in DOMAIN kwargs} |->
                            npy_write(kwargs[member[1]])]
         IN  [ok |-> TRUE,
              fs |-> [q \in DOMAIN fs \cup {path} |->
                        IF q = path THEN archive ELSE fs[q]]]

\* load_simulation(filename): np.load(filename, allow_pickle=True); the
\* keys of the result are the member names without ".npy".
load_simulation(fs, filename) ==
    IF filename \notin DOMAIN fs
    THEN [ok |-> FALSE, exc |-> "FileNotFoundError", at |-> "load_simulation"]
    ELSE [ok |-> TRUE,
          data |-> [name \in {member[1] : member \in DOMAIN fs[filename]} |->
                        npy_read(fs[filename][<<name, ".npy">>])]]

(***************************************************************************)
(* State.                                                                  *)
(***************************************************************************)
VARIABLES
    pc,         \* "idle", "grid", "solve", "step", "done", "observed",
                \* "saved", "resaved", "loaded"
    req,        \* the request being served
    grid,       \* the grid record built for it, <<>> before
    V,          \* the potential array, <<>> before
    psi0,       \* the initial wavefunction handed to the propagator
    H,          \* the Hamiltonian matrix, <<>> until one is assembled
    lu,         \* the factorization of A, <<>> until splu is called
    B,          \* the right-hand operator
    psi_vec,    \* the running flat vector of the 2D propagator
    psi_t,      \* the snapshots stored so far
    n,          \* the loop index of the propagator
    energies,   \* returned eigenvalues
    wavefuncs,  \* returned eigenvectors
    response,   \* the reply of the request, <<>> until it ends
    obs,        \* the observable request or call, <<>> until one is made
    value,      \* its outcome
    files,      \* the file system: file name |-> archive
    saved,      \* the last call of save_simulation and its outcome
    loaded      \* the call of load_simulation and its outcome

obs_vars == <<obs, value>>
archive_vars == <<files, saved, loaded>>

vars == <<pc, req, grid, V, psi0, H, lu, B, psi_vec, psi_t, n, energies,
          wavefuncs, response, obs_vars, archive_vars>>

Init ==
    /\ pc = "idle"
    /\ req = <<>>
    /\ grid = <<>>
    /\ V = <<>>
    /\ psi0 = <<>>
    /\ H = <<>>
    /\ lu = <<>>
    /\ B = <<>>
    /\ psi_vec = <<>>
    /\ psi_t = <<>>
    /\ n = 0
    /\ energies = <<>>
    /\ wavefuncs = <<>>
    /\ response = <<>>
    /\ obs = <<>>
    /\ value = <<>>
    /\ files = <<>>
    /\ saved = <<>>
    /\ loaded = <<>>

\* A request arrives.
Submit ==
    /\ UNCHANGED <<obs_vars, archive_vars>>
    /\ pc = "idle"
    /\ \E r \in Requests :
        /\ Submittable(r)
        /\ req' = r
    /\ pc' = "grid"
    /\ UNCHANGED <<grid, V, psi0, H, lu, B, psi_vec, psi_t, n, energies,
                   wavefuncs, response>>

\* The first statement of every handler: the grid.  A refused grid ends the
\* request with the error.
BuildGrid ==
    /\ UNCHANGED <<obs_vars, archive_vars>>
    /\ pc = "grid"
    /\ LET g == build_grid(req)
       IN  IF g.ok
           THEN /\ grid' = g
                /\ pc' = "solve"
                /\ response' = response
           ELSE /\ grid' = grid
                /\ pc' = "done"
                /\ response' = respond(g)
    /\ UNCHANGED <<req, V, psi0, H, lu, B, psi_vec, psi_t, n, energies,
                   wavefuncs>>

\* solve_1d_timeindependent / solve_2d_timeindependent after the grid: the
\* potential, the solver call and the reply.
SolveStationary ==
    /\ UNCHANGED <<obs_vars, archive_vars>>
    /\ pc = "solve"
    /\ IsStationary(req)
    /\ \E a \in StationaryInputs(req) :
        /\ a.potential \in Representable(req, grid)
        /\ LET pot == build_potential(req, grid, a.potential)
           IN  /\ req' = [req EXCEPT !.in = a]
               /\ V' = pot
               /\ H' = build_hamiltonian(req, grid, pot)
               /\ \E out \in (IF Is1D(req)
                              THEN solve_time_independent_1d(grid.x, pot,
                                       DefaultMass, DefaultHbar, a.num_eigen)
                              ELSE solve_time_independent_2d(grid.X, grid.Y, pot,
                                       DefaultMass, DefaultHbar, a.num_eigen)) :
                    /\ energies' = (IF out.ok THEN out.energies ELSE <<>>)
                    /\ wavefuncs' = (IF out.ok THEN out.wavefuncs ELSE <<>>)
                    /\ response' = respond(out)
    /\ pc' = "done"
    /\ UNCHANGED <<grid, psi0, lu, B, psi_vec, psi_t, n>>

\* solve_1d_timedependent / solve_2d_timedependent after the grid: the
\* potential, psi0, and solve_time_dependent_1d / _2d up to the loop.
StartPropagation ==
    /\ UNCHANGED <<obs_vars, archive_vars>>
    /\ pc = "solve"
    /\ ~IsStationary(req)
    /\ \E a \in PropagationInputs(req) :
        LET pot == build_potential(req, grid, a.potential)
            p0 == prepare_psi0(req, grid, a)
            st == IF Is1D(req)
                  THEN setup_time_dependent_1d(grid.x, p0, pot, a.times,
                           DefaultMass, DefaultHbar, a.method)
                  ELSE setup_time_dependent_2d(grid.X, grid.Y, p0, pot,
                           a.times, DefaultMass, DefaultHbar, a.method)
        IN  /\ req' = [req EXCEPT !.in = a]
            /\ V' = pot
            /\ psi0' = p0
            /\ IF st.ok
               THEN /\ psi_t' = st.psi_t
                    /\ H' = st.H
                    /\ lu' = st.lu
                    /\ B' = st.B
                    /\ psi_vec' = (IF Is1D(req) THEN <<>> ELSE st.psi_vec)
                    /\ n' = 1
                    /\ pc' = "step"
                    /\ response' = response
               ELSE /\ UNCHANGED <<psi_t, H, lu, B, psi_vec, n>>
                    /\ pc' = "done"
                    /\ response' = respond(st)
    /\ UNCHANGED <<grid, energies, wavefuncs>>

\* One pass of the loop: for n in range(1, len(times)).
Step ==
    /\ UNCHANGED <<obs_vars, archive_vars>>
    /\ pc = "step"
    /\ n < Len(req.in.times)
    /\ IF Is1D(req)
       THEN /\ \E y \in step_time_dependent_1d(grid.x, lu, B, psi_t[n]) :
                 psi_t' = Append(psi_t, y)
            /\ psi_vec' = psi_vec
       ELSE /\ \E y \in step_time_dependent_2d(grid.X, grid.Y, lu, B, psi_vec) :
                 /\ psi_vec' = y
                 /\ psi_t' = Append(psi_t,
                        reshape_wf(y, Len(grid.X), Len(grid.X[1])))
    /\ n' = n + 1
    /\ UNCHANGED <<pc, req, grid, V, psi0, H, lu, B, energies, wavefuncs,
                   response>>

\* return psi_t, and the reply of the handler.
Return ==
    /\ UNCHANGED <<obs_vars, archive_vars>>
    /\ pc = "step"
    /\ n >= Len(req.in.times)
    /\ pc' = "done"
    /\ response' = [status |-> 200]
    /\ UNCHANGED <<req, grid, V, psi0, H, lu, B, psi_vec, psi_t, n, energies,
                   wavefuncs>>

\* An observable request arrives at eval_observable and is answered.
EvalObservable ==
    /\ UNCHANGED archive_vars
    /\ pc = "idle"
    /\ \E r \in ObservableRequests :
        /\ obs' = r
        /\ value' = eval_observable(r)
        /\ response' = respond(eval_observable(r))
    /\ pc' = "observed"
    /\ UNCHANGED <<req, grid, V, psi0, H, lu, B, psi_vec, psi_t, n, energies,
                   wavefuncs>>

\* One of the expectation functions is called directly.
CallExpectation ==
    /\ UNCHANGED archive_vars
    /\ pc = "idle"
    /\ \E c \in ExpectationCalls :
        /\ obs' = c
        /\ value' = call_expectation(c)
    /\ pc' = "observed"
    /\ UNCHANGED <<req, grid, V, psi0, H, lu, B, psi_vec, psi_t, n, energies,
                   wavefuncs, response>>

\* save_simulation is called, once or a second time.
SaveSimulation ==
    /\ pc \in {"idle", "saved"}
    /\ \E c \in SaveCalls :
        LET out == save_simulation(files, c.filename, c.kwargs)
        IN  /\ files' = out.fs
            /\ saved' = [filename |-> c.filename, kwargs |-> c.kwargs,
                         ok |-> out.ok]
    /\ pc' = (IF pc = "idle" THEN "saved" ELSE "resaved")
    /\ UNCHANGED <<req, grid, V, psi0, H, lu, B, psi_vec, psi_t, n, energies,
                   wavefuncs, response, obs_vars, loaded>>

\* load_simulation is called after it.
LoadSimulation ==
    /\ pc \in {"saved", "resaved"}
    /\ \E f \in Filenames :
        loaded' = [filename |-> f, out |-> load_simulation(files, f)]
    /\ pc' = "loaded"
    /\ UNCHANGED <<req, grid, V, psi0, H, lu, B, psi_vec, psi_t, n, energies,
                   wavefuncs, response, obs_vars, files, saved>>

Next ==
    \/ Submit
    \/ BuildGrid
    \/ SolveStationary
    \/ StartPropagation
    \/ Step
    \/ Return
    \/ EvalObservable
    \/ CallExpectation
    \/ SaveSimulation
    \/ LoadSimulation

Spec == Init /\ [][Next]_vars

(***************************************************************************)
(* Properties.                                                             *)
(***************************************************************************)
GridBuilt == grid # <<>>

\* The request asks for fewer than two points on some axis.
TooFewPoints(r) ==
    IF Is1D(r) THEN r.grid.num_points < 2
    ELSE r.grid.num_x < 2 \/ r.grid.num_y < 2

\* The request ended with the grid builder's error.
GridRefused ==
    /\ pc = "done"
    /\ response.status = 400
    /\ response.at \in {"create_1d_grid", "create_2d_grid"}

\* The stationary solver was called and the request has ended.
StationaryDone == pc = "done" /\ GridBuilt /\ IsStationary(req)

\* The propagator was called (it may still be in its loop).
PropagatorCalled == pc \in {"step", "done"} /\ GridBuilt /\ ~IsStationary(req)

QuadNorm(psi) ==
    IF Is1D(req) THEN QuadNorm1D(psi, grid.x)
    ELSE QuadNorm2D(psi, grid.X, grid.Y)

Count(seq, v) == Cardinality({k \in 1 .. Len(seq) : seq[k] = v})

\* The grid point (i, j) that sits at each position of a raveled array of
\* shape (Nx, Ny).
PointAt(Nx, Ny) ==
    ravel([i \in 1 .. Nx |-> [j \in 1 .. Ny |-> <<i, j>>]])

\* C1: the 2D Hamiltonian uses the ordering of V.ravel() and
\* reshape((Nx, Ny)): the row of grid point (i, j) couples it to (i-1, j)
\* and (i+1, j) with weight -hbar^2/(2 m dx^2), to (i, j-1) and (i, j+1)
\* with weight -hbar^2/(2 m dy^2), and to no other point.
C1_FlattenOrderingConsistent ==
    (H # <<>> /\ ~Is1D(req)) =>
        LET Nx == Len(grid.X)
            Ny == Len(grid.X[1])
            at == PointAt(Nx, Ny)
            c == kinetic_factor(DefaultMass, DefaultHbar)
            wx == RDiv(c, RMul(grid.dx, grid.dx))
            wy == RDiv(c, RMul(grid.dy, grid.dy))
        IN  \A r, q \in 1 .. Nx * Ny :
                r # q =>
                    H[r][q] =
                        IF at[r][2] = at[q][2] /\ Abs(at[r][1] - at[q][1]) = 1
                        THEN wx
                        ELSE IF at[r][1] = at[q][1] /\ Abs(at[r][2] - at[q][2]) = 1
                        THEN wy
                        ELSE RZero

\* C2: the energies solve_time_independent_2d returns are the K
\* algebraically smallest eigenvalues of the Hamiltonian, with their
\* multiplicities: none is returned while a strictly lower one is omitted.
C2_LowestEnergiesReturned ==
    (StationaryDone /\ req.kind = "ti2d" /\ response.status = 200) =>
        \A dec \in eigh(H) :
            LET lowest == SubSeq(dec.vals, 1, req.in.num_eigen)
            IN  /\ Len(energies) = req.in.num_eigen
                /\ \A k \in 1 .. Len(dec.vals) :
                      Count(energies, dec.vals[k]) = Count(lowest, dec.vals[k])

\* C3: for K >= 1 on a grid of N points the stationary solver returns
\* min(K, N) eigenvalues in ascending order and as many eigenvectors.
C3_AscendingMinKN ==
    (StationaryDone /\ req.in.num_eigen >= 1) =>
        LET K == req.in.num_eigen
            N == GridSize(grid)
        IN  /\ response.status = 200
            /\ Len(energies) = (IF K < N THEN K ELSE N)
            /\ Len(wavefuncs) = Len(energies)
            /\ \A k \in 1 .. Len(energies) - 1 :
                  RLeq(energies[k], energies[k + 1])

\* C4: a stationary solve (1D or 2D) asked for more eigenpairs than the
\* grid has points ends with an error raised by the solver, and returns no
\* energies and no eigenvectors.
C4_TooManyEigenpairsFails ==
    (StationaryDone /\ req.in.num_eigen > GridSize(grid)) =>
        /\ response.status = 400
        /\ response.at \in {"solve_time_independent_1d",
                            "solve_time_independent_2d"}
        /\ energies = <<>>
        /\ wavefuncs = <<>>

C4_Witness ==
    /\ StationaryDone
    /\ req.kind = "ti1d"
    /\ req.in.num_eigen = GridSize(grid) + 1
    /\ response.status = 400

\* C5: every eigenvector a stationary solve returns has trapezoidal
\* quadrature integral of |psi|^2 equal to 1.
C5_EigenvectorsQuadratureNormalized ==
    (StationaryDone /\ response.status = 200) =>
        /\ Len(wavefuncs) >= 1
        /\ \A c \in 1 .. Len(wavefuncs) : QuadNorm(wavefuncs[c]) = ROne

\* Two eigenvectors returned on a grid where the Euclidean unit norm is
\* not the quadrature unit norm.
C5_Witness ==
    /\ StationaryDone
    /\ response.status = 200
    /\ Len(wavefuncs) = 2
    /\ \A c \in 1 .. 2 :
          Euclid2(IF Is1D(req) THEN wavefuncs[c] ELSE ravel_wf(wavefuncs[c]))
              # ROne

\* C6: a propagation (1D or 2D, supported method) over a non-empty sequence
\* of time points returns one snapshot per time point, the one at index 0
\* being the initial wavefunction it was given.
C6_OneSnapshotPerTimePoint ==
    (pc = "done" /\ PropagatorCalled /\ supported_method(req.in.method)
        /\ Len(req.in.times) >= 1) =>
        /\ response.status = 200
        /\ Len(psi_t) = Len(req.in.times)
        /\ psi_t[1] = psi0

\* C7: a propagator (1D or 2D) called with a method other than
\* "crank-nicolson" raises NotImplementedError before a Hamiltonian is
\* built or a snapshot stored; the request ends with that one error.
C7_UnsupportedMethodFailsFirst ==
    (PropagatorCalled /\ req.in.method # "crank-nicolson") =>
        /\ pc = "done"
        /\ response.status = 400
        /\ response.exc = "NotImplementedError"
        /\ response.at \in {"solve_time_dependent_1d", "solve_time_dependent_2d"}
        /\ H = <<>>
        /\ lu = <<>>
        /\ B = <<>>
        /\ psi_vec = <<>>
        /\ psi_t = <<>>

\* The method is refused even where the time points alone would fail.
C7_Witness ==
    /\ pc = "done"
    /\ PropagatorCalled
    /\ req.kind = "td2d"
    /\ req.in.method = "Crank-Nicolson"
    /\ Len(req.in.times) = 1
    /\ response.status = 400

\* C8: every snapshot the propagators store at an index n >= 1 has
\* trapezoidal quadrature integral of |psi|^2 equal to 1, whatever the norm
\* of the initial wavefunction.
C8_SnapshotsQuadratureNormalized ==
    PropagatorCalled =>
        \A k \in 2 .. Len(psi_t) : QuadNorm(psi_t[k]) = ROne

\* A finished 2D propagation from an initial wavefunction whose norm is not 1.
C8_Witness ==
    /\ pc = "done"
    /\ PropagatorCalled
    /\ req.kind = "td2d"
    /\ response.status = 200
    /\ Len(psi_t) = MaxTimes
    /\ QuadNorm(psi0) # ROne
    /\ first_interval(req.in.times) # 0

\* C9: grid construction is refused with ValueError exactly when some axis
\* has fewer than two points, and then no grid is returned; with two or more
\* points on every axis a grid of that shape is built.
C9_GridRefusedIffTooFewPoints ==
    pc \in {"solve", "step", "done"} =>
        /\ GridRefused <=> TooFewPoints(req)
        /\ GridRefused => ~GridBuilt /\ response.exc = "ValueError"
        /\ ~GridRefused =>
              /\ GridBuilt
              /\ GridSize(grid) =
                    (IF Is1D(req) THEN req.grid.num_points
                     ELSE req.grid.num_x * req.grid.num_y)

\* A 2D grid refused for its second axis alone.
C9_Witness ==
    /\ GridRefused
    /\ req.kind = "td2d"
    /\ req.grid.num_x >= 2
    /\ req.grid.num_y < 2

\* C10: a 1D grid with n >= 2 has n coordinates, the first xmin and the
\* last xmax, and its dx is (xmax - xmin)/(n - 1), the difference of every
\* two adjacent coordinates.
C10_Grid1DSpacing ==
    (GridBuilt /\ Is1D(req)) =>
        LET np == req.grid.num_points
        IN  /\ Len(grid.x) = np
            /\ grid.x[1] = RInt(req.grid.xmin)
            /\ grid.x[np] = RInt(req.grid.xmax)
            /\ grid.dx = Rat(req.grid.xmax - req.grid.xmin, np - 1)
            /\ \A k \in 1 .. np - 1 : RSub(grid.x[k + 1], grid.x[k]) = grid.dx

\* A three-point grid whose spacing is not an integer.
C10_Witness ==
    /\ GridBuilt
    /\ Is1D(req)
    /\ req.grid.num_points = MaxPoints
    /\ grid.dx[2] # 1

\* An observable request or call has been answered.
Observed == pc = "observed"

\* np.trapz(np.trapz(O, Y[0,:]), X[:,0]): the nested trapezoidal rule.
Trapz2D(O, X, Y) ==
    trapz([i \in 1 .. Len(X) |-> trapz(O[i], Y[1])],
          [i \in 1 .. Len(X) |-> X[i][1]])

\* The array an answered request or call reduced, and the quotient of the
\* trapezoidal integrals of that array and of |psi|^2.
ObservedIntegrand ==
    IF obs.via = "api"
    THEN (IF complete_1d(obs)
          THEN ne_evaluate_1d(obs.expr, obs.x[1], obs.psi[1]).O
          ELSE ne_evaluate_2d(obs.expr, obs.X[1], obs.Y[1], obs.psi2d[1]).O)
    ELSE IF obs.fn = "expectation_x" THEN integrand_x(obs.x, obs.psi)
    ELSE IF obs.fn = "expectation_p" THEN integrand_p(obs.x, obs.psi, DefaultHbar)
    ELSE IF obs.fn = "expectation_energy"
    THEN integrand_energy(obs.x, obs.psi, linear_ramp_1d(obs.x, obs.slope, 0),
                          DefaultMass, DefaultHbar)
    ELSE IF obs.fn = "expectation_observable"
    THEN integrand_observable(obs.x, obs.psi)
    ELSE IF obs.fn = "expectation_x_2d"
    THEN times_2d(obs.X, probability_density_2d(obs.psi))
    ELSE times_2d(obs.Y, probability_density_2d(obs.psi))

ObservedIn1D ==
    IF obs.via = "api" THEN complete_1d(obs)
    ELSE obs.fn \notin {"expectation_x_2d", "expectation_y_2d"}

TrapezoidalExpectation ==
    IF ObservedIn1D
    THEN LET x == IF obs.via = "api" THEN obs.x[1] ELSE obs.x
             psi == IF obs.via = "api" THEN obs.psi[1] ELSE obs.psi
         IN  RDiv(trapz(ObservedIntegrand, x),
                  trapz(probability_density(psi), x))
    ELSE LET X == IF obs.via = "api" THEN obs.X[1] ELSE obs.X
             Y == IF obs.via = "api" THEN obs.Y[1] ELSE obs.Y
             psi == IF obs.via = "api" THEN obs.psi2d[1] ELSE obs.psi
         IN  RDiv(Trapz2D(ObservedIntegrand, X, Y),
                  Trapz2D(probability_density_2d(psi), X, Y))

\* C11: every expectation value that is returned, on a grid of two or
\* more points per axis, is the trapezoidal integral of the integrand
\* (nested over both axes in 2D) divided by the trapezoidal integral of
\* |psi|^2.
C11_TrapezoidalExpectation ==
    (Observed /\ value.ok /\ (ObservedIn1D => Len(ObservedIntegrand) >= 2)) =>
        value.value = TrapezoidalExpectation

\* A field of the answered request holds at least one item.
Supplied(field) == field # <<>> /\ Len(field[1]) > 0

\* C12: an observable request that carries neither x with psi nor X with Y
\* and psi2d (a missing or empty field makes its set incomplete) is
\* answered with the error "Invalid input for observable evaluation" raised
\* by eval_observable itself, and with no value.
C12_IncompleteObservableInputFails ==
    (Observed /\ obs.via = "api"
        /\ ~(Supplied(obs.x) /\ Supplied(obs.psi))
        /\ ~(Supplied(obs.X) /\ Supplied(obs.Y) /\ Supplied(obs.psi2d))) =>
        /\ ~value.ok
        /\ value.exc = "ValueError"
        /\ value.at = "eval_observable"
        /\ response = [status |-> 400, exc |-> "ValueError",
                       at |-> "eval_observable"]

\* Refused with x but no psi, and with X and psi2d but no Y.
C12_Witness ==
    /\ Observed
    /\ obs.via = "api"
    /\ Supplied(obs.x) /\ obs.psi = None
    /\ Supplied(obs.X) /\ Supplied(obs.psi2d) /\ obs.Y = None
    /\ Len(obs.x[1]) >= 2
    /\ response.status = 400

\* C13: load_simulation(filename) called after save_simulation(filename,
\* ...) with the same file name finds the save completed, succeeds, and
\* yields exactly the names that were saved, each with an array of the
\* dtype, shape and items of the one saved.
C13_SaveLoadRoundTrip ==
    (pc = "loaded" /\ loaded.filename = saved.filename) =>
        /\ saved.ok
        /\ loaded.out.ok
        /\ DOMAIN loaded.out.data = DOMAIN saved.kwargs
        /\ \A name \in DOMAIN saved.kwargs :
              loaded.out.data[name] = saved.kwargs[name]

\* The potential of the request has an entry +infinity.
HasInfiniteEntry(pot) == \E k \in 1 .. Len(pot) : pot[k] = RInf

\* C14: a 1D stationary solve of K <= N eigenpairs on a potential with
\* +infinity entries succeeds and returns K finite energies and K
\* eigenvectors normalized to quadrature norm 1.
C14_InfinitePotentialAccepted ==
    (StationaryDone /\ req.kind = "ti1d" /\ HasInfiniteEntry(V)
        /\ req.in.num_eigen <= GridSize(grid)) =>
        /\ response.status = 200
        /\ Len(energies) = req.in.num_eigen
        /\ \A k \in 1 .. Len(energies) : isfinite(energies[k])
        /\ Len(wavefuncs) = req.in.num_eigen
        /\ \A c \in 1 .. Len(wavefuncs) : QuadNorm(wavefuncs[c]) = ROne

\* The snapshots one pass of the loop may store after the snapshot prev,
\* with the operators lu and B.
NextSnapshots(prev) ==
    IF Is1D(req) THEN step_time_dependent_1d(grid.x, lu, B, prev)
    ELSE {reshape_wf(y, Len(grid.X), Len(grid.X[1])) :
            y \in step_time_dependent_2d(grid.X, grid.Y, lu, B, ravel_wf(prev))}

=============================================================================
